---- MODULE Spec2Model ----
(***************************************************************************)
(* A model of spectrum-to-rgb.py: the command-line pipeline that loads a   *)
(* spectrum file, normalises it, integrates it against the CIE colour      *)
(* matching functions, and derives the chromaticity and the sRGB triple.   *)
(*                                                                         *)
(* Files are sequences of one-character strings.  Numbers in files are     *)
(* decimal integers; floating-point values are modelled as exact           *)
(* rationals: a vector of integer numerators over one positive             *)
(* denominator.                                                            *)
(***************************************************************************)
EXTENDS Integers, Sequences, FiniteSets, TLC

VARIABLES
    pc,             \* position of main()
    argc,           \* len(sys.argv)
    csv_file,       \* sys.argv[1] ("" when absent)
    file_exists,    \* os.path.exists(csv_file)
    content,        \* the numeric rows the spectrum file was written from
    written_with,   \* the separator the spectrum file was written with
    file_text,      \* the characters of the spectrum file
    cie_text,       \* the characters of CIE_xyz_1931_2deg.csv
    delimiter,      \* the separator load_csv detected in the spectrum file
    wavelengths,    \* main's local: sequence of integers
    intensities,    \* main's local: [num: sequence of integers, den: positive]
    first_norm,     \* intensities after line 182, before line 186
    cie_data,       \* the table spectrum_to_xyz and the plot loaded
    interp,         \* the three interpolated sequences line 116-118 prints
    xyz,            \* [X, Y, Z, den]: the tristimulus, numerators over den
    chromaticity,   \* [x, y, den]: x = X/total, y = Y/total as X, Y over total
    rgb_lin,        \* the clipped, normalised linear RGB: [num, den]
    rgb,            \* the returned 0-255 triple
    error,          \* the message of the exception in flight ("" when none)
    stdout,         \* what was printed: sequence of [kind, detail]
    calls,          \* the functions main has called, in order
    file_reads,     \* the files load_csv has loaded, in order
    exit_status     \* the process exit status (-1 while running)

vars == <<pc, argc, csv_file, file_exists, content, written_with, file_text,
          cie_text, delimiter, wavelengths, intensities, first_norm, cie_data,
          interp, xyz, chromaticity, rgb_lin, rgb, error, stdout, calls,
          file_reads, exit_status>>

----------------------------------------------------------------------------
(* Bounds of the model *)

MaxRows == 2

MaxIntensity == 2

MaxArgs == 2

(* Program constants *)

SampleSize == 1024

----------------------------------------------------------------------------
(* Small helpers *)

Max(S) == CHOOSE m \in S : \A s \in S : s <= m

Min(S) == CHOOSE m \in S : \A s \in S : m <= s

Abs(n) == IF n < 0 THEN 0 - n ELSE n

RECURSIVE GCD(_, _)
GCD(a, b) == IF b = 0 THEN Abs(a) ELSE GCD(b, a % b)

RECURSIVE SeqSum(_)
SeqSum(s) == IF s = <<>> THEN 0 ELSE Head(s) + SeqSum(Tail(s))

SeqMax(s) == Max({s[i] : i \in DOMAIN s})

Take(s, n) == SubSeq(s, 1, IF Len(s) < n THEN Len(s) ELSE n)

Count(line, ch) == Cardinality({i \in DOMAIN line : line[i] = ch})

----------------------------------------------------------------------------
(* Text: how numbers are written to and read from a file *)

DigitChars == <<"0", "1", "2", "3", "4", "5", "6", "7", "8", "9">>

Delimiters == {",", "\t", " "}

RECURSIVE FormatNat(_)
FormatNat(n) ==
    IF n < 10 THEN <<DigitChars[n + 1]>>
    ELSE FormatNat(n \div 10) \o <<DigitChars[(n % 10) + 1]>>

FormatNumber(n) == IF n < 0 THEN <<"-">> \o FormatNat(0 - n) ELSE FormatNat(n)

RECURSIVE WriteRow(_, _)
WriteRow(row, d) ==
    IF Len(row) = 0 THEN <<>>
    ELSE IF Len(row) = 1 THEN FormatNumber(row[1])
    ELSE FormatNumber(row[1]) \o <<d>> \o WriteRow(Tail(row), d)

RECURSIVE WriteFile(_, _)
WriteFile(rows, d) ==
    IF rows = <<>> THEN <<>>
    ELSE WriteRow(Head(rows), d) \o <<"\n">> \o WriteFile(Tail(rows), d)

(* str.split(sep): the pieces between occurrences of sep, empty ones kept *)
RECURSIVE SplitOn(_, _)
SplitOn(s, sep) ==
    IF \A i \in DOMAIN s : s[i] # sep THEN <<s>>
    ELSE LET k == Min({i \in DOMAIN s : s[i] = sep})
         IN  <<SubSeq(s, 1, k - 1)>> \o SplitOn(SubSeq(s, k + 1, Len(s)), sep)

(* str.strip(chars) *)
RECURSIVE StripChars(_, _)
StripChars(s, chars) ==
    IF s = <<>> THEN s
    ELSE IF s[1] \in chars THEN StripChars(Tail(s), chars)
    ELSE IF s[Len(s)] \in chars THEN StripChars(SubSeq(s, 1, Len(s) - 1), chars)
    ELSE s

DigitValue(c) == CHOOSE d \in 0..9 : DigitChars[d + 1] = c

IsDigit(c) == \E d \in 0..9 : DigitChars[d + 1] = c

RECURSIVE ParseNat(_)
ParseNat(s) ==
    IF Len(s) = 1 THEN DigitValue(s[1])
    ELSE 10 * ParseNat(SubSeq(s, 1, Len(s) - 1)) + DigitValue(s[Len(s)])

(* float(field) as genfromtxt's converter applies it: surrounding white     *)
(* space is ignored, one sign is accepted, anything else becomes nan.      *)
ParseField(field) ==
    LET t == StripChars(field, {" ", "\t", "\r", "\n"})
        body == IF t # <<>> /\ t[1] \in {"-", "+"} THEN Tail(t) ELSE t
    IN  IF body = <<>> \/ \E i \in DOMAIN body : ~IsDigit(body[i]) THEN "nan"
        ELSE IF t[1] = "-" THEN 0 - ParseNat(body) ELSE ParseNat(body)

----------------------------------------------------------------------------
(* csv.Sniffer().sniff(sample, delimiters=",\t "), for a sample of at most *)
(* ten non-empty lines (one pass of its chunk loop) and no quote marks.    *)

SniffLines(sample) ==
    SelectSeq(SplitOn(sample, "\n"), LAMBDA line : line # <<>>)

(* The mode of a character's per-line frequency: [freq, count], the count  *)
(* reduced by the number of lines that disagree; ties go to the frequency  *)
(* seen first.  [freq |-> 0, count |-> 0] when the character never occurs. *)
CharMode(data, ch) ==
    LET n == Len(data)
        freq(i) == Count(data[i], ch)
        lines(f) == {i \in 1..n : freq(i) = f}
        freqs == {freq(i) : i \in 1..n}
        best == CHOOSE f \in freqs :
                    \A g \in freqs :
                        \/ Cardinality(lines(g)) < Cardinality(lines(f))
                        \/ /\ Cardinality(lines(g)) = Cardinality(lines(f))
                           /\ Min(lines(f)) <= Min(lines(g))
    IN  IF freqs = {0} THEN [freq |-> 0, count |-> 0]
        ELSE [freq |-> best, count |-> 2 * Cardinality(lines(best)) - n]

(* The candidates whose mode covers at least level percent of the lines *)
ConsistentDelims(data, level) ==
    {k \in Delimiters :
        LET v == CharMode(data, k)
        IN  v.freq > 0 /\ v.count > 0 /\ v.count * 100 >= level * Len(data)}

(* The sniffer's loop: consistency from 1.0 down in steps of 0.01 while no  *)
(* candidate is found and the level is at least the threshold; the last    *)
(* level tried is 0.91.  Levels are in percent.                            *)
RECURSIVE DelimsFrom(_, _)
DelimsFrom(data, level) ==
    IF level < 91 THEN {}
    ELSE IF ConsistentDelims(data, level) # {} THEN ConsistentDelims(data, level)
    ELSE DelimsFrom(data, level - 1)

BuildDelims(data) == IF data = <<>> THEN {} ELSE DelimsFrom(data, 100)

(* One candidate is the answer; of several, the first in the sniffer's     *)
(* preferred order; "" when there is none.                                 *)
PreferredDelimiter(delims) ==
    IF delims = {} THEN ""
    ELSE IF Cardinality(delims) = 1 THEN CHOOSE d \in delims : TRUE
    ELSE IF "," \in delims THEN ","
    ELSE IF "\t" \in delims THEN "\t"
    ELSE " "

GuessDelimiter(sample) == PreferredDelimiter(BuildDelims(SniffLines(sample)))

----------------------------------------------------------------------------
(* np.genfromtxt(file_path, delimiter=delimiter) *)

(* The rows of fields of the non-blank lines *)
StripLines(lines) ==
    [i \in DOMAIN lines |-> StripChars(lines[i], {" ", "\r", "\n"})]

SplitFields(lines, d) == [i \in DOMAIN lines |-> SplitOn(lines[i], d)]

SplitRows(text, d) ==
    SplitFields(SelectSeq(StripLines(SplitOn(text, "\n")),
                          LAMBDA line : line # <<>>), d)

(* The array genfromtxt returns: the parsed rows, squeezed.  shape is the  *)
(* squeezed shape; rows keeps the values as rows x columns.                *)
Squeeze(rows) ==
    LET r == Len(rows)
        c == IF r = 0 THEN 0 ELSE Len(rows[1])
        shape == IF r = 0 THEN <<0>>
                 ELSE SelectSeq(<<r, c>>, LAMBDA n : n # 1)
    IN  [ndim |-> Len(shape), shape |-> shape, rows |-> rows]

(* Rows of differing lengths are an error; otherwise every field is parsed *)
ParseRows(fields) ==
    IF \E i \in DOMAIN fields : Len(fields[i]) # Len(fields[1])
    THEN [ok |-> FALSE, error |-> "Some errors were detected !", data |-> Squeeze(<<>>)]
    ELSE [ok |-> TRUE, error |-> "",
          data |-> Squeeze([i \in DOMAIN fields |->
                      [j \in DOMAIN fields[i] |-> ParseField(fields[i][j])]])]

GenFromTxt(text, d) == ParseRows(SplitRows(text, d))

Column(data, j) == [i \in DOMAIN data.rows |-> data.rows[i][j]]

----------------------------------------------------------------------------
(* load_csv and load_spectrum *)

Loaded(d, g) == [ok |-> g.ok, error |-> g.error, delimiter |-> d, data |-> g.data]

(* lines 36-37, for the separator d that sniff returned; sniff raises when *)
(* it found none.                                                          *)
LoadWith(text, d) ==
    IF d = "" THEN [ok |-> FALSE, error |-> "Could not determine delimiter",
                    delimiter |-> "", data |-> Squeeze(<<>>)]
    ELSE Loaded(d, GenFromTxt(text, d))

load_csv(text) == LoadWith(text, GuessDelimiter(Take(text, SampleSize)))

(* line 46: the table passes unless data.ndim != 2 or data.shape[1] != 2 *)
AcceptsShape(data) == ~(data.ndim # 2 \/ data.shape[2] # 2)

(* lines 46-48, on what load_csv returned *)
SplitSpectrum(l) ==
    IF ~l.ok THEN [ok |-> FALSE, error |-> l.error, delimiter |-> l.delimiter,
                   wavelengths |-> <<>>, intensities |-> <<>>]
    ELSE IF ~AcceptsShape(l.data)
    THEN [ok |-> FALSE, error |-> "Invalid spectrum file format",
          delimiter |-> l.delimiter, wavelengths |-> <<>>, intensities |-> <<>>]
    ELSE [ok |-> TRUE, error |-> "", delimiter |-> l.delimiter,
          wavelengths |-> Column(l.data, 1), intensities |-> Column(l.data, 2)]

load_spectrum(text) == SplitSpectrum(load_csv(text))

----------------------------------------------------------------------------
(* scipy.interpolate.interp1d(x, y, bounds_error=False, fill_value=0),     *)
(* kind "linear".  A table column holds integers; an interpolated value is *)
(* a numerator over GridDen(xs), the least common multiple of the gaps.    *)

LCM(a, b) == (a * b) \div GCD(a, b)

RECURSIVE GridDen(_)
GridDen(xs) ==
    IF Len(xs) < 2 THEN 1
    ELSE LCM(xs[2] - xs[1], GridDen(Tail(xs)))

(* np.searchsorted(xs, x_new): how many entries lie strictly below x_new *)
SearchSorted(xs, x_new) == Cardinality({i \in DOMAIN xs : xs[i] < x_new})

Clip(n, lo, hi) == IF n < lo THEN lo ELSE IF n > hi THEN hi ELSE n

(* A variant that extends the end segments instead of filling *)
FillExtrapolated(xs, ys, x_new) ==
    IF x_new < xs[1]
    THEN ((ys[2] - ys[1]) * (x_new - xs[1]) + ys[1] * (xs[2] - xs[1]))
            * (GridDen(xs) \div (xs[2] - xs[1]))
    ELSE ((ys[Len(xs)] - ys[Len(xs) - 1]) * (x_new - xs[Len(xs) - 1])
            + ys[Len(xs) - 1] * (xs[Len(xs)] - xs[Len(xs) - 1]))
            * (GridDen(xs) \div (xs[Len(xs)] - xs[Len(xs) - 1]))

(* The fill applied outside [xs[0], xs[-1]] *)
FillValue(xs, ys, x_new) == 0

(* A variant that holds the lower entry's value across the interval *)
PreviousValue(xs, ys, x_new, lo, hi) == ys[lo] * GridDen(xs)

(* slope * (x_new - x_lo) + y_lo between entries lo and hi = lo + 1, the    *)
(* slope (y_hi - y_lo) / (x_hi - x_lo); a numerator over GridDen(xs).      *)
LinearBetween(xs, ys, x_new, lo, hi) ==
    ((ys[hi] - ys[lo]) * (x_new - xs[lo]) + ys[lo] * (xs[hi] - xs[lo]))
        * (GridDen(xs) \div (xs[hi] - xs[lo]))

(* hi is searchsorted(x, x_new) clipped to 1 .. len(x) - 1, lo is hi - 1   *)
(* (0-based); here the entries are numbered from 1.                        *)
BracketLow(xs, x_new) == Clip(SearchSorted(xs, x_new), 1, Len(xs) - 1)

(* A variant whose range excludes the two end wavelengths *)
Interp1dOpenEnds(xs, ys, x_new) ==
    IF x_new <= xs[1] \/ x_new >= xs[Len(xs)] THEN FillValue(xs, ys, x_new)
    ELSE LinearBetween(xs, ys, x_new, BracketLow(xs, x_new), BracketLow(xs, x_new) + 1)

Interp1d(xs, ys, x_new) ==
    IF x_new < xs[1] \/ x_new > xs[Len(xs)] THEN FillValue(xs, ys, x_new)
    ELSE LinearBetween(xs, ys, x_new, BracketLow(xs, x_new), BracketLow(xs, x_new) + 1)

----------------------------------------------------------------------------
(* spectrum_to_xyz, on an already loaded table *)

InterpolateAll(cie, col, wl) ==
    [k \in DOMAIN wl |-> Interp1d(Column(cie, 1), Column(cie, col), wl[k])]

WeightedSum(ints, weights) ==
    SeqSum([k \in DOMAIN ints |-> ints[k] * weights[k]])

(* lines 120-122 *)
SumProducts(ints, ip, gridDen) ==
    [X |-> WeightedSum(ints.num, ip.x),
     Y |-> WeightedSum(ints.num, ip.y),
     Z |-> WeightedSum(ints.num, ip.z),
     den |-> ints.den * gridDen]

(* lines 111-118 *)
Interpolants(wl, cie) ==
    [x |-> InterpolateAll(cie, 2, wl),
     y |-> InterpolateAll(cie, 3, wl),
     z |-> InterpolateAll(cie, 4, wl)]

----------------------------------------------------------------------------
(* main's normalisation, lines 180-186 *)

(* intensities / divisor, divisor = n/d > 0 *)
DivideBy(ints, n, d) == [num |-> [k \in DOMAIN ints.num |-> ints.num[k] * d],
                         den |-> ints.den * n]

(* A variant that divides by the sum of the intensities *)
NormalizeBySum(ints) == DivideBy(ints, SeqSum(ints.num), ints.den)

(* intensities / np.max(intensities) *)
NormalizeByMax(ints) == DivideBy(ints, SeqMax(ints.num), ints.den)

(* A variant of the guard that lets a zero maximum through *)
HasNonNegativeMaximum(ints) == SeqMax(ints.num) >= 0

(* line 181: max_intensity > 0 *)
HasPositiveMaximum(ints) == SeqMax(ints.num) > 0

(* Equality of two rational vectors *)
SameValues(a, b) ==
    /\ Len(a.num) = Len(b.num)
    /\ \A k \in DOMAIN a.num : a.num[k] * b.den = b.num[k] * a.den

(* main's chromaticity, lines 191-196: x = X/total, y = Y/total, kept as   *)
(* numerators over a positive denominator.                                 *)
Chromaticity(t) ==
    LET total == t.X + t.Y + t.Z
    IN  IF total > 0 THEN [x |-> t.X, y |-> t.Y, den |-> total]
        ELSE [x |-> 0 - t.X, y |-> 0 - t.Y, den |-> 0 - total]

----------------------------------------------------------------------------
(* xyz_to_rgb *)

(* np.dot(mat, [x, y, z]): numerators over 10000 * den *)
LinearRGB(t) ==
    [num |-> << 32406 * t.X - 15372 * t.Y -  4986 * t.Z,
                 0 - 9689 * t.X + 18758 * t.Y +   415 * t.Z,
                   557 * t.X -  2040 * t.Y + 10570 * t.Z >>,
     den |-> 10000 * t.den]

(* np.clip(rgb, 0, None) *)
ClipNegative(v) ==
    [num |-> [i \in DOMAIN v.num |-> IF v.num[i] < 0 THEN 0 ELSE v.num[i]],
     den |-> v.den]

(* A variant that leaves the channels unscaled *)
NormalizeSkipped(v) == v

(* if max_val > 0: rgb /= max_val *)
NormalizeBrightest(v) ==
    LET max_val == SeqMax(v.num)
    IN  IF max_val > 0 THEN [num |-> v.num, den |-> max_val] ELSE v

(* floor(c * 10^digits / m) and whether the division was exact, by long    *)
(* division, m > 0.                                                        *)
RECURSIVE LongDiv(_, _, _, _)
LongDiv(q, r, m, digits) ==
    IF digits = 0 THEN [q |-> q, exact |-> r = 0]
    ELSE LongDiv(q * 10 + (r * 10) \div m, (r * 10) % m, m, digits - 1)

(* The least value, in units of 10^-7, that 1.055 * v^(1/2.4) - 0.055      *)
(* scaled by 255 rounds to k or more, for k = 11 .. 300.                   *)
GammaTable == <<
    31884, 35093, 38484, 42058, 45819, 49769, 53911, 58247,
    62780, 67513, 72447, 77586, 82931, 88485, 94250, 100229,
    106423, 112835, 119466, 126320, 133398, 140702, 148234, 155996,
    163990, 172218, 180682, 189383, 198325, 207508, 216934, 226606,
    236524, 246692, 257109, 267779, 278703, 289883, 301320, 313015,
    324972, 337190, 349673, 362421, 375436, 388720, 402274, 416099,
    430198, 444572, 459222, 474150, 489357, 504845, 520616, 536669,
    553009, 569634, 586548, 603751, 621244, 639030, 657110, 675484,
    694155, 713123, 732390, 751958, 771827, 791999, 812475, 833257,
    854345, 875742, 897448, 919465, 941794, 964435, 987391, 1010663,
    1034252, 1058159, 1082385, 1106931, 1131799, 1156990, 1182505, 1208346,
    1234512, 1261007, 1287830, 1314983, 1342467, 1370284, 1398433, 1426917,
    1455737, 1484894, 1514388, 1544221, 1574394, 1604909, 1635765, 1666965,
    1698510, 1730400, 1762636, 1795220, 1828153, 1861435, 1895069, 1929054,
    1963392, 1998084, 2033131, 2068534, 2104294, 2140412, 2176889, 2213726,
    2250924, 2288485, 2326408, 2364696, 2403348, 2442367, 2481753, 2521506,
    2561629, 2602122, 2642985, 2684221, 2725829, 2767812, 2810169, 2852901,
    2896011, 2939498, 2983363, 3027608, 3072234, 3117241, 3162630, 3208402,
    3254559, 3301100, 3348028, 3395342, 3443044, 3491135, 3539615, 3588486,
    3637748, 3687403, 3737450, 3787892, 3838728, 3889960, 3941589, 3993616,
    4046041, 4098865, 4152089, 4205714, 4259741, 4314171, 4369004, 4424242,
    4479885, 4535934, 4592390, 4649253, 4706526, 4764208, 4822300, 4880803,
    4939718, 4999046, 5058788, 5118944, 5179515, 5240502, 5301906, 5363728,
    5425968, 5488627, 5551707, 5615207, 5679129, 5743474, 5808242, 5873434,
    5939050, 6005093, 6071562, 6138458, 6205782, 6273534, 6341717, 6410329,
    6479373, 6548849, 6618757, 6689099, 6759874, 6831085, 6902731, 6974814,
    7047334, 7120292, 7193689, 7267525, 7341801, 7416518, 7491677, 7567279,
    7643323, 7719812, 7796745, 7874123, 7951948, 8030220, 8108939, 8188106,
    8267722, 8347789, 8428305, 8509273, 8590693, 8672565, 8754891, 8837671,
    8920906, 9004596, 9088743, 9173346, 9258407, 9343926, 9429904, 9516342,
    9603241, 9690600, 9778422, 9866706, 9955453, 10044664, 10134340, 10224481,
    10315088, 10406161, 10497702, 10589711, 10682189, 10775136, 10868553, 10962441,
    11056800, 11151631, 11246935, 11342713, 11438965, 11535691, 11632893, 11730571,
    11828726, 11927358, 12026468, 12126057, 12226126, 12326674, 12427703, 12529214,
    12631207, 12733682, 12836640, 12940083, 13044010, 13148423, 13253321, 13358706,
    13464579, 13570939, 13677787, 13785125, 13892952, 14001270, 14110079, 14219380,
    14329173, 14439458>>

(* The least value, in units of 10^-7, that 12.92 * v scaled by 255 rounds *)
(* to k or more: (k - 1/2) / 3294.6.                                       *)
LinearStep(k) == ((2 * k - 1) * 100000000 + 65891) \div 65892

(* int(round(gamma_correct(c / m) * 255)), c >= 0, m > 0; values of 2 and  *)
(* more are past the table and encode as its last step.                    *)
(* v is the value in units of 10^-7, rounded down, and whether it is exact; *)
(* the first branch is gamma_correct's value <= 0.0031308.                 *)
StepsReached(table, q) == Cardinality({k \in DOMAIN table : table[k] <= q})

EncodeScaled(v) ==
    IF v.q < 31308 \/ (v.q = 31308 /\ v.exact)
    THEN Cardinality({k \in 1..10 : LinearStep(k) <= v.q})
    ELSE 10 + StepsReached(GammaTable, v.q)

Encode255(c, m) ==
    EncodeScaled(IF c >= 2 * m THEN [q |-> 20000000, exact |-> TRUE]
                 ELSE LongDiv(c \div m, c % m, m, 7))

GammaAndScale(v) == [i \in DOMAIN v.num |-> Encode255(v.num[i], v.den)]

(* lines 62-73: the linear RGB, clipped and normalised *)
LinearStage(t) == NormalizeBrightest(ClipNegative(LinearRGB(t)))

xyz_to_rgb(t) == GammaAndScale(LinearStage(t))

----------------------------------------------------------------------------
(* The inputs of one invocation *)

MaxWavelength == 5

None == [none |-> TRUE]

CieFileName == "CIE_xyz_1931_2deg.csv"

SpectrumPath == "spectrum.csv"

MissingPaths == {"missing.csv", "data/none.txt"}

(* Reference tables in the shape of the bundled file: four columns,        *)
(* strictly increasing wavelengths, non-negative colour matching values.   *)
CmfTables ==
    { << <<1, 1, 0, 3>>, <<2, 1, 3, 0>>, <<4, 2, 1, 0>> >>,
      << <<1, 0, 0, 0>>, <<2, 2, 2, 2>>, <<4, 0, 1, 0>> >> }

IntensityRange == (0 - 1)..MaxIntensity

(* Spectra of n samples, wavelengths strictly increasing *)
SpectrumRows(n) ==
    {r \in [1..n -> (0..MaxWavelength) \X IntensityRange] :
        \A i \in 1..(n - 1) : r[i][1] < r[i + 1][1]}

(* The rows as written with cols columns: the wavelength alone, the pair,  *)
(* or the pair and a third column.                                         *)
WithColumns(rows, cols) ==
    [i \in DOMAIN rows |->
        IF cols = 1 THEN <<rows[i][1]>>
        ELSE IF cols = 2 THEN rows[i]
        ELSE <<rows[i][1], rows[i][2], 0>>]

Unstarted ==
    /\ pc = "start"
    /\ delimiter = ""
    /\ wavelengths = <<>>
    /\ intensities = [num |-> <<>>, den |-> 1]
    /\ first_norm = None
    /\ cie_data = None
    /\ interp = None
    /\ xyz = None
    /\ chromaticity = None
    /\ rgb_lin = None
    /\ rgb = <<>>
    /\ error = ""
    /\ stdout = <<>>
    /\ calls = <<>>
    /\ file_reads = <<>>
    /\ exit_status = 0 - 1

NoFile ==
    /\ file_exists = FALSE
    /\ content = <<>>
    /\ written_with = ","
    /\ file_text = <<>>

Init ==
    /\ Unstarted
    /\ \E t \in CmfTables : cie_text = WriteFile(t, ",")
    /\ \/ /\ argc \in (1..(MaxArgs + 1)) \ {2}
          /\ csv_file = ""
          /\ NoFile
       \/ /\ argc = 2
          /\ csv_file \in MissingPaths
          /\ NoFile
       \/ /\ argc = 2
          /\ csv_file = SpectrumPath
          /\ file_exists = TRUE
          /\ \E n \in 0..MaxRows, cols \in 1..3 :
                \E rows \in SpectrumRows(n) :
                    /\ cols # 2 => \A i \in 1..n : rows[i][2] = 0
                    /\ content = WithColumns(rows, cols)
          /\ written_with \in Delimiters
          /\ file_text = WriteFile(content, written_with)

----------------------------------------------------------------------------
(* main *)

Line(kind, detail) == [kind |-> kind, detail |-> detail]

(* lines 156-158 *)
CheckArgs ==
    /\ pc = "start"
    /\ IF argc # 2
       THEN /\ stdout' = Append(stdout, Line("Usage:", "python spectrum-to-rgb.py <spectrum_file.csv>"))
            /\ exit_status' = 1
            /\ pc' = "exited"
       ELSE /\ pc' = "check_file"
            /\ UNCHANGED <<stdout, exit_status>>
    /\ UNCHANGED <<argc, csv_file, file_exists, content, written_with, file_text,
                   cie_text, delimiter, wavelengths, intensities, first_norm,
                   cie_data, interp, xyz, chromaticity, rgb_lin, rgb, error,
                   calls, file_reads>>

(* lines 167-169 *)
CheckFile ==
    /\ pc = "check_file"
    /\ IF ~file_exists
       THEN /\ stdout' = Append(stdout, Line("Error: file not found.", csv_file))
            /\ exit_status' = 1
            /\ pc' = "exited"
       ELSE /\ pc' = "load"
            /\ UNCHANGED <<stdout, exit_status>>
    /\ UNCHANGED <<argc, csv_file, file_exists, content, written_with, file_text,
                   cie_text, delimiter, wavelengths, intensities, first_norm,
                   cie_data, interp, xyz, chromaticity, rgb_lin, rgb, error,
                   calls, file_reads>>

(* What load_csv prints: line 34, reached when the sniffer found a separator *)
DelimiterLines(d) == IF d = "" THEN <<>> ELSE <<Line("Detected delimiter", d)>>

(* lines 173-177 *)
IsEmpty(r) == Len(r.wavelengths) = 0 \/ Len(r.intensities) = 0

SpectrumLoaded(r) ==
    /\ calls' = calls \o <<"load_spectrum", "load_csv">>
    /\ file_reads' = Append(file_reads, csv_file)
    /\ delimiter' = r.delimiter
    /\ stdout' = stdout \o DelimiterLines(r.delimiter)
            \o (IF r.ok THEN <<Line("Spectrum Data Loaded:", "")>> ELSE <<>>)
    /\ IF ~r.ok
       THEN /\ error' = r.error
            /\ pc' = "except"
            /\ UNCHANGED <<wavelengths, intensities>>
       ELSE /\ wavelengths' = r.wavelengths
            /\ intensities' = [num |-> r.intensities, den |-> 1]
            /\ error' = IF IsEmpty(r) THEN "Spectrum file is empty or improperly formatted."
                        ELSE ""
            /\ pc' = IF IsEmpty(r) THEN "except" ELSE "normalize"

LoadSpectrum ==
    /\ pc = "load"
    /\ SpectrumLoaded(load_spectrum(file_text))
    /\ UNCHANGED <<argc, csv_file, file_exists, content, written_with, file_text,
                   cie_text, first_norm, cie_data, interp, xyz, chromaticity,
                   rgb_lin, rgb, exit_status>>

(* lines 180-186 *)
Normalize ==
    /\ pc = "normalize"
    /\ IF HasPositiveMaximum(intensities)
       THEN /\ first_norm' = NormalizeByMax(intensities)
            /\ intensities' = NormalizeByMax(first_norm')
            /\ pc' = "integrate"
            /\ UNCHANGED error
       ELSE /\ error' = "Spectrum intensities are all zero."
            /\ pc' = "except"
            /\ UNCHANGED <<first_norm, intensities>>
    /\ UNCHANGED <<argc, csv_file, file_exists, content, written_with, file_text,
                   cie_text, delimiter, wavelengths, cie_data, interp, xyz,
                   chromaticity, rgb_lin, rgb, stdout, calls, file_reads,
                   exit_status>>

(* line 188 and spectrum_to_xyz, lines 100-126 *)
spectrum_to_xyz(l) ==
    /\ calls' = calls \o <<"spectrum_to_xyz", "load_csv">>
    /\ file_reads' = Append(file_reads, CieFileName)
    /\ IF ~l.ok
       THEN /\ error' = l.error
            /\ pc' = "except"
            /\ stdout' = stdout \o DelimiterLines(l.delimiter)
            /\ UNCHANGED <<cie_data, interp, xyz>>
       ELSE /\ cie_data' = l.data
            /\ interp' = Interpolants(wavelengths, l.data)
            /\ xyz' = SumProducts(intensities, interp', GridDen(Column(l.data, 1)))
            /\ stdout' = stdout \o DelimiterLines(l.delimiter)
                    \o <<Line("Interpolated x:", ""), Line("Interpolated y:", ""),
                         Line("Interpolated z:", ""), Line("Computed XYZ:", "")>>
            /\ pc' = "chromaticity"
            /\ UNCHANGED error

SpectrumToXyz ==
    /\ pc = "integrate"
    /\ spectrum_to_xyz(load_csv(cie_text))
    /\ UNCHANGED <<argc, csv_file, file_exists, content, written_with, file_text,
                   cie_text, delimiter, wavelengths, intensities, first_norm,
                   chromaticity, rgb_lin, rgb, exit_status>>

(* lines 191-196 *)
ComputeChromaticity ==
    /\ pc = "chromaticity"
    /\ IF xyz.X + xyz.Y + xyz.Z = 0
       THEN /\ error' = "Spectrum produces zero total intensity in XYZ space."
            /\ pc' = "except"
            /\ UNCHANGED chromaticity
       ELSE /\ chromaticity' = Chromaticity(xyz)
            /\ pc' = "to_rgb"
            /\ UNCHANGED error
    /\ UNCHANGED <<argc, csv_file, file_exists, content, written_with, file_text,
                   cie_text, delimiter, wavelengths, intensities, first_norm,
                   cie_data, interp, xyz, rgb_lin, rgb, stdout, calls,
                   file_reads, exit_status>>

(* line 199 and xyz_to_rgb, lines 50-96 *)
XyzToRgb ==
    /\ pc = "to_rgb"
    /\ rgb_lin' = LinearStage(xyz)
    /\ rgb' = xyz_to_rgb(xyz)
    /\ calls' = Append(calls, "xyz_to_rgb")
    /\ stdout' = stdout \o <<Line("Linear RGB before clamping:", ""),
                             Line("Normalized linear RGB:", ""),
                             Line("Gamma-corrected RGB:", ""),
                             Line("Final RGB (0-255):", "")>>
    /\ pc' = "report"
    /\ UNCHANGED <<argc, csv_file, file_exists, content, written_with, file_text,
                   cie_text, delimiter, wavelengths, intensities, first_norm,
                   cie_data, interp, xyz, chromaticity, error, file_reads,
                   exit_status>>

(* lines 201-202 *)
Report ==
    /\ pc = "report"
    /\ stdout' = stdout \o <<Line("Chromaticity (x, y):", ""),
                             Line("RGB Value (0-255):", "")>>
    /\ pc' = "plot"
    /\ UNCHANGED <<argc, csv_file, file_exists, content, written_with, file_text,
                   cie_text, delimiter, wavelengths, intensities, first_norm,
                   cie_data, interp, xyz, chromaticity, rgb_lin, rgb, error,
                   calls, file_reads, exit_status>>

(* A variant that loads the reference once per plotted curve *)
plot_loading_twice(l) ==
    /\ cie_data' = l.data
    /\ stdout' = stdout \o DelimiterLines(l.delimiter) \o DelimiterLines(l.delimiter)
    /\ calls' = calls \o <<"plot_chromaticity_diagram", "load_csv", "load_csv">>
    /\ file_reads' = file_reads \o <<CieFileName, CieFileName>>

(* plot_chromaticity_diagram, lines 132-150, on what load_csv returned *)
plot_chromaticity_diagram(l) ==
    /\ cie_data' = l.data
    /\ stdout' = stdout \o DelimiterLines(l.delimiter)
    /\ calls' = calls \o <<"plot_chromaticity_diagram", "load_csv">>
    /\ file_reads' = Append(file_reads, CieFileName)

(* line 205 and plot_chromaticity_diagram, lines 128-150 *)
PlotChromaticityDiagram ==
    /\ pc = "plot"
    /\ plot_chromaticity_diagram(load_csv(cie_text))
    /\ pc' = "return"
    /\ UNCHANGED <<argc, csv_file, file_exists, content, written_with, file_text,
                   cie_text, delimiter, wavelengths, intensities, first_norm,
                   interp, xyz, chromaticity, rgb_lin, rgb, error, exit_status>>

(* A variant of the handler that ends the process with status 1 *)
HandleExceptionAndExit ==
    /\ pc = "except"
    /\ stdout' = Append(stdout, Line("Error:", error))
    /\ exit_status' = 1
    /\ pc' = "exited"
    /\ UNCHANGED <<argc, csv_file, file_exists, content, written_with, file_text,
                   cie_text, delimiter, wavelengths, intensities, first_norm,
                   cie_data, interp, xyz, chromaticity, rgb_lin, rgb, error,
                   calls, file_reads>>

(* lines 206-207 *)
HandleException ==
    /\ pc = "except"
    /\ stdout' = Append(stdout, Line("Error:", error))
    /\ pc' = "return"
    /\ UNCHANGED <<argc, csv_file, file_exists, content, written_with, file_text,
                   cie_text, delimiter, wavelengths, intensities, first_norm,
                   cie_data, interp, xyz, chromaticity, rgb_lin, rgb, error,
                   calls, file_reads, exit_status>>

(* main returns and the interpreter exits *)
Return ==
    /\ pc = "return"
    /\ exit_status' = 0
    /\ pc' = "exited"
    /\ UNCHANGED <<argc, csv_file, file_exists, content, written_with, file_text,
                   cie_text, delimiter, wavelengths, intensities, first_norm,
                   cie_data, interp, xyz, chromaticity, rgb_lin, rgb, error,
                   stdout, calls, file_reads>>

Next ==
    \/ CheckArgs
    \/ CheckFile
    \/ LoadSpectrum
    \/ Normalize
    \/ SpectrumToXyz
    \/ ComputeChromaticity
    \/ XyzToRgb
    \/ Report
    \/ PlotChromaticityDiagram
    \/ HandleException
    \/ Return

Spec == Init /\ [][Next]_vars

----------------------------------------------------------------------------
(* Vocabulary of the properties *)

Called(f) == \E i \in DOMAIN calls : calls[i] = f

Printed(kind) == \E i \in DOMAIN stdout : stdout[i].kind = kind

PrintedError(msg) ==
    \E i \in DOMAIN stdout : stdout[i] = Line("Error:", msg)

CieReads == Cardinality({i \in DOMAIN file_reads : file_reads[i] = CieFileName})

(* The spectrum file was written from one or more rows of two columns *)
TwoColumnContent == content # <<>> /\ Len(content[1]) = 2

ContentWavelengths == [i \in DOMAIN content |-> content[i][1]]

ContentIntensities == [i \in DOMAIN content |-> content[i][2]]

(* load_spectrum returned *)
Accepted == wavelengths # <<>>

AfterLoad == pc \notin {"start", "check_file", "load"} /\ file_reads # <<>>

AllNonNegative(seq) == \A i \in DOMAIN seq : seq[i] >= 0

Grid == Column(cie_data, 1)

InRange(w) == Grid[1] <= w /\ w <= Grid[Len(Grid)]

----------------------------------------------------------------------------
(* C1: a loaded spectrum whose maximum intensity is <= 0 ends in the       *)
(* "all zero" error before spectrum_to_xyz is called: no XYZ is computed,  *)
(* xyz_to_rgb and the plot are never called, no chromaticity or RGB line   *)
(* is printed.  And when X + Y + Z = 0, main raises before xyz_to_rgb and  *)
(* the plot.  No file whose intensities are all <= 0 gets an XYZ.          *)
C1_DegenerateRejected ==
    /\ (Accepted /\ ~HasPositiveMaximum(intensities)) =>
          /\ pc \in {"normalize", "except", "return", "exited"}
          /\ pc = "except" => error = "Spectrum intensities are all zero."
          /\ pc \in {"return", "exited"} =>
                PrintedError("Spectrum intensities are all zero.")
          /\ xyz = None /\ chromaticity = None /\ rgb = <<>>
          /\ ~Called("spectrum_to_xyz")
          /\ ~Called("xyz_to_rgb")
          /\ ~Called("plot_chromaticity_diagram")
          /\ ~Printed("Computed XYZ:")
          /\ ~Printed("Chromaticity (x, y):")
          /\ ~Printed("RGB Value (0-255):")
          /\ ~Printed("Final RGB (0-255):")
    /\ (xyz # None /\ xyz.X + xyz.Y + xyz.Z = 0) =>
          /\ pc \in {"chromaticity", "except", "return", "exited"}
          /\ pc = "except" =>
                error = "Spectrum produces zero total intensity in XYZ space."
          /\ pc \in {"return", "exited"} =>
                PrintedError("Spectrum produces zero total intensity in XYZ space.")
          /\ chromaticity = None /\ rgb = <<>>
          /\ ~Called("xyz_to_rgb")
          /\ ~Called("plot_chromaticity_diagram")
          /\ ~Printed("Chromaticity (x, y):")
          /\ ~Printed("RGB Value (0-255):")
    /\ (TwoColumnContent /\ \A i \in DOMAIN content : content[i][2] <= 0) =>
          xyz = None /\ ~Called("spectrum_to_xyz")

(* An all-zero spectrum of two samples has run to the end *)
C1_Witness ==
    /\ pc = "exited"
    /\ Len(wavelengths) = 2
    /\ \A i \in DOMAIN intensities.num : intensities.num[i] = 0
    /\ PrintedError("Spectrum intensities are all zero.")

----------------------------------------------------------------------------
(* C2: the exit status is 1 exactly when the argument count is not one or  *)
(* the path does not exist, and 0 otherwise; the argument check comes      *)
(* before the existence check and both before any file read; the missing   *)
(* file message holds the path; every later failure is printed by the one  *)
(* handler with the prefix "Error:" and the process exits with status 0.   *)
C2_ExitStatus ==
    /\ pc = "exited" =>
          /\ exit_status \in {0, 1}
          /\ exit_status = 1 <=> (argc # 2 \/ ~file_exists)
    /\ pc # "exited" => exit_status = 0 - 1
    /\ argc # 2 =>
          /\ pc \in {"start", "exited"}
          /\ ~Printed("Error: file not found.")
          /\ pc = "exited" => stdout = <<Line("Usage:", "python spectrum-to-rgb.py <spectrum_file.csv>")>>
    /\ (argc # 2 \/ ~file_exists) => file_reads = <<>> /\ calls = <<>>
    /\ (argc = 2 /\ ~file_exists) =>
          /\ pc \in {"start", "check_file", "exited"}
          /\ pc = "exited" => stdout = <<Line("Error: file not found.", csv_file)>>
    /\ error # "" =>
          /\ argc = 2 /\ file_exists
          /\ pc \in {"except", "return", "exited"}
          /\ pc \in {"return", "exited"} => stdout[Len(stdout)] = Line("Error:", error)
          /\ pc = "exited" => exit_status = 0

(* A file of three columns was rejected and the process exited with 0 *)
C2_Witness ==
    /\ pc = "exited"
    /\ error = "Invalid spectrum file format"
    /\ Len(content) = 2 /\ Len(content[1]) = 3
    /\ exit_status = 0

----------------------------------------------------------------------------
(* C3: with non-negative intensities and a non-negative table, every       *)
(* chromaticity main computes has 0 <= x <= 1, 0 <= y <= 1, x + y <= 1.    *)
(* chromaticity holds x and y as numerators over a positive denominator.   *)
C3_ChromaticityBounds ==
    (/\ chromaticity # None
     /\ AllNonNegative(intensities.num)
     /\ \A i \in DOMAIN cie_data.rows : AllNonNegative(cie_data.rows[i])) =>
        /\ chromaticity.den > 0
        /\ 0 <= chromaticity.x /\ chromaticity.x <= chromaticity.den
        /\ 0 <= chromaticity.y /\ chromaticity.y <= chromaticity.den
        /\ chromaticity.x + chromaticity.y <= chromaticity.den

(* A point strictly inside the triangle, from a spectrum with a sample     *)
(* outside the table's range                                               *)
C3_Witness ==
    /\ chromaticity # None
    /\ AllNonNegative(intensities.num)
    /\ \E k \in DOMAIN wavelengths : ~InRange(wavelengths[k]) /\ intensities.num[k] > 0
    /\ 0 < chromaticity.x /\ 0 < chromaticity.y
    /\ chromaticity.x + chromaticity.y < chromaticity.den

----------------------------------------------------------------------------
(* C4: a spectrum with intensity 1 at exactly one sample, whose wavelength *)
(* is a table wavelength, and 0 at every other sample gets the XYZ of that *)
(* table row, wherever the other samples lie.                              *)
IsDeltaAt(k) ==
    /\ ContentIntensities[k] = 1
    /\ \A i \in DOMAIN content : i # k => ContentIntensities[i] = 0
    /\ \E j \in DOMAIN Grid : Grid[j] = ContentWavelengths[k]

C4_DeltaSpectrum ==
    (xyz # None /\ TwoColumnContent) =>
        \A k \in DOMAIN content :
            IsDeltaAt(k) =>
                \A j \in DOMAIN Grid :
                    Grid[j] = ContentWavelengths[k] =>
                        /\ xyz.X = cie_data.rows[j][2] * xyz.den
                        /\ xyz.Y = cie_data.rows[j][3] * xyz.den
                        /\ xyz.Z = cie_data.rows[j][4] * xyz.den

(* A delta at the table's last wavelength beside a sample between two      *)
(* table wavelengths                                                       *)
C4_Witness ==
    /\ xyz # None
    /\ TwoColumnContent
    /\ \E k \in DOMAIN content :
          /\ IsDeltaAt(k)
          /\ ContentWavelengths[k] = Grid[Len(Grid)]
          /\ xyz.X + xyz.Y + xyz.Z # 0
    /\ \E i \in DOMAIN content :
          /\ InRange(ContentWavelengths[i])
          /\ \A j \in DOMAIN Grid : Grid[j] # ContentWavelengths[i]

----------------------------------------------------------------------------
(* C5: each interpolated colour matching function is linear interpolation  *)
(* with zero fill: the table value at a table wavelength, the blend of the *)
(* two bracketing values between adjacent table wavelengths, 0 below the   *)
(* first and above the last table wavelength (both ends inside).  So a     *)
(* sample outside the range adds nothing to X, Y and Z.                    *)
AgreesWithReference(values, col) ==
    \A k \in DOMAIN wavelengths :
        LET w == wavelengths[k]
            G == GridDen(Grid)
        IN  /\ ~InRange(w) => values[k] = 0
            /\ \A j \in DOMAIN Grid :
                  Grid[j] = w => values[k] = cie_data.rows[j][col] * G
            /\ \A j \in 1..(Len(Grid) - 1) :
                  (Grid[j] < w /\ w < Grid[j + 1]) =>
                      values[k] * (Grid[j + 1] - Grid[j]) =
                          G * (cie_data.rows[j][col] * (Grid[j + 1] - w)
                               + cie_data.rows[j + 1][col] * (w - Grid[j]))

InRangeOnly(weights) ==
    [k \in DOMAIN weights |-> IF InRange(wavelengths[k]) THEN weights[k] ELSE 0]

C5_LinearInterpolationZeroFill ==
    interp # None =>
        /\ AgreesWithReference(interp.x, 2)
        /\ AgreesWithReference(interp.y, 3)
        /\ AgreesWithReference(interp.z, 4)
        /\ xyz.X = WeightedSum(InRangeOnly(intensities.num), interp.x)
        /\ xyz.Y = WeightedSum(InRangeOnly(intensities.num), interp.y)
        /\ xyz.Z = WeightedSum(InRangeOnly(intensities.num), interp.z)

(* One sample lies between two table wavelengths where the function is not *)
(* flat, another lies above the table with a non-zero intensity            *)
C5_Witness ==
    /\ interp # None
    /\ \E k \in DOMAIN wavelengths :
          /\ wavelengths[k] > Grid[Len(Grid)]
          /\ intensities.num[k] # 0
    /\ \E k \in DOMAIN wavelengths, j \in 1..(Len(Grid) - 1) :
          /\ Grid[j] < wavelengths[k] /\ wavelengths[k] < Grid[j + 1]
          /\ cie_data.rows[j][3] # cie_data.rows[j + 1][3]
          /\ interp.y[k] # cie_data.rows[j][3] * GridDen(Grid)

----------------------------------------------------------------------------
(* C6: load_spectrum accepts a loaded table exactly when it has two        *)
(* columns: every file of one or more rows of two numbers, a single row    *)
(* included, is split into its wavelengths and intensities in file order;  *)
(* every loaded table of another width fails with the format error.        *)
C6_AcceptsExactlyTwoColumns ==
    (AfterLoad /\ delimiter # "") =>
        /\ Accepted <=> TwoColumnContent
        /\ Accepted => wavelengths = ContentWavelengths
        /\ (Accepted /\ pc = "normalize") =>
              intensities = [num |-> ContentIntensities, den |-> 1]
        /\ ~TwoColumnContent => error = "Invalid spectrum file format"

(* The same statement for files of two or more rows (holds) *)
C6_AcceptsTwoColumnsOfSeveralRows ==
    (AfterLoad /\ delimiter # "" /\ Len(content) >= 2) =>
        /\ Accepted <=> TwoColumnContent
        /\ Accepted => wavelengths = ContentWavelengths
        /\ (Accepted /\ pc = "normalize") =>
              intensities = [num |-> ContentIntensities, den |-> 1]
        /\ ~TwoColumnContent => error = "Invalid spectrum file format"

----------------------------------------------------------------------------
(* C7 as stated: for every xyz_to_rgb call main makes, after the clip and  *)
(* the scaling the brightest linear channel is exactly 1 and all lie in    *)
(* [0, 1]; the returned triple has largest channel 255, all in 0 .. 255.   *)
ChannelsInUnitRange ==
    \A i \in DOMAIN rgb_lin.num : 0 <= rgb_lin.num[i] /\ rgb_lin.num[i] <= rgb_lin.den

ChannelsInByteRange == \A i \in DOMAIN rgb : 0 <= rgb[i] /\ rgb[i] <= 255

BrightestIsOne ==
    /\ SeqMax(rgb_lin.num) = rgb_lin.den
    /\ SeqMax(rgb) = 255

C7_BrightestChannelAlwaysOne ==
    rgb # <<>> =>
        /\ rgb_lin.den > 0
        /\ ChannelsInUnitRange
        /\ ChannelsInByteRange
        /\ BrightestIsOne

(* C7 amended: the channels lie in [0, 1] and the triple in 0 .. 255; when *)
(* some linear channel is positive after the clip (always so when no       *)
(* intensity is negative) the brightest is exactly 1 and the largest       *)
(* returned channel is 255; when none is, the scaling is skipped and the   *)
(* triple is (0, 0, 0).                                                    *)
SomeChannelPositive == \E i \in 1..3 : LinearRGB(xyz).num[i] > 0

C7_BrightestChannelOneWhenPositive ==
    rgb # <<>> =>
        /\ rgb_lin.den > 0
        /\ ChannelsInUnitRange
        /\ ChannelsInByteRange
        /\ IF SomeChannelPositive THEN BrightestIsOne
           ELSE rgb_lin.num = <<0, 0, 0>> /\ rgb = <<0, 0, 0>>
        /\ AllNonNegative(intensities.num) => SomeChannelPositive

(* A spectrum with a negative sample whose red channel was clipped and     *)
(* whose brightest channel was scaled to 1                                 *)
C7_Witness ==
    /\ rgb # <<>>
    /\ \E k \in DOMAIN intensities.num : intensities.num[k] < 0
    /\ \E i \in 1..3 : LinearRGB(xyz).num[i] < 0
    /\ \E i \in 1..3 : 0 < rgb[i] /\ rgb[i] < 255
    /\ BrightestIsOne

----------------------------------------------------------------------------
(* C8: the same two-column content written with comma, tab or one space is *)
(* sniffed from the first SampleSize characters and load_spectrum returns  *)
(* the same wavelengths and intensities for all three files.               *)
ReturnsSameAs(d) ==
    /\ load_spectrum(WriteFile(content, d)).ok
    /\ load_spectrum(WriteFile(content, d)).wavelengths = wavelengths
    /\ load_spectrum(WriteFile(content, d)).intensities = intensities.num

C8_DelimiterInvariance ==
    (pc \in {"normalize", "except"} /\ first_norm = None /\ TwoColumnContent) =>
        /\ delimiter = written_with
        /\ Accepted
        /\ \A d \in Delimiters : ReturnsSameAs(d)

(* The same statement for content of two or more rows (holds) *)
C8_DelimiterInvarianceOfSeveralRows ==
    (pc \in {"normalize", "except"} /\ first_norm = None
        /\ TwoColumnContent /\ Len(content) >= 2) =>
        /\ delimiter = written_with
        /\ Accepted
        /\ \A d \in Delimiters : ReturnsSameAs(d)

----------------------------------------------------------------------------
(* C9: main's normalisation is idempotent and keeps the chromaticity: the  *)
(* maximum is exactly 1 after the first division, the second division      *)
(* changes no intensity, and the chromaticity of the normalised spectrum   *)
(* is that of the original one; X, Y, Z shrink by the factor 1 / max.      *)
RawXYZ ==
    SumProducts([num |-> ContentIntensities, den |-> 1], interp, GridDen(Grid))

(* t = raw / m, as fractions *)
ShrunkBy(t, raw, m) ==
    /\ t.X * raw.den * m = raw.X * t.den
    /\ t.Y * raw.den * m = raw.Y * t.den
    /\ t.Z * raw.den * m = raw.Z * t.den

(* c is the chromaticity of raw *)
ChromaticityOf(c, raw) ==
    /\ raw.X + raw.Y + raw.Z # 0
    /\ c.x * (raw.X + raw.Y + raw.Z) = raw.X * c.den
    /\ c.y * (raw.X + raw.Y + raw.Z) = raw.Y * c.den

C9_NormalizationIdempotent ==
    first_norm # None =>
        /\ first_norm.den > 0
        /\ SeqMax(first_norm.num) = first_norm.den
        /\ SameValues(intensities, first_norm)
        /\ SameValues(first_norm,
                      [num |-> ContentIntensities, den |-> SeqMax(ContentIntensities)])
        /\ xyz # None => ShrunkBy(xyz, RawXYZ, SeqMax(ContentIntensities))
        /\ chromaticity # None => ChromaticityOf(chromaticity, RawXYZ)

(* A spectrum of maximum 2 with a negative sample got its chromaticity *)
C9_Witness ==
    /\ chromaticity # None
    /\ SeqMax(ContentIntensities) = 2
    /\ \E k \in DOMAIN content : ContentIntensities[k] < 0
    /\ xyz.X # RawXYZ.X

----------------------------------------------------------------------------
====
